---- MODULE Spec2Model ----
(***************************************************************************)
(* The event loop of snog (src/src/lib.rs): App::run's closure, one action *)
(* per winit event arm, together with the event normaliser                 *)
(* Event::from_winit_window, Screen and the default AppLogic::event.       *)
(*                                                                         *)
(* f64 values (scale factors, logical coordinates, wheel deltas) are exact *)
(* rationals <<numerator, denominator>> in lowest terms.  Option<T> is a   *)
(* sequence of length 0 (None) or 1 (Some).                                *)
(***************************************************************************)
EXTENDS Integers, Sequences, FiniteSets, TLC

(* ----------------------------- bounds ---------------------------------- *)
\* physical window sizes are the w x h with w + h = MaxSide + 1
MaxSide == 2
\* wgpu devices the render context may come to hold
MaxDevices == 2
\* cap of the counter of windows built by create_window
MaxWindows == 2
\* cap of the per-device counter of Renderer::new calls
MaxRenderers == 2
\* the normaliser is given the pixel deltas -MaxPixels .. MaxPixels, in steps of 1/2
MaxPixels == 21
\* and the line deltas -MaxLines .. MaxLines, in steps of 1/2
MaxLines == 3
\* scale factors n/d with n, d in 1..MaxScale are given to Screen
MaxScale == 3

(* ------------------------- program constants --------------------------- *)
\* examples/simple.rs: the number of lines the example's Data holds
NUM == 1000
\* the assumed line height, in pixels, of the wheel heuristic
LINE_HEIGHT == 20

(* ------------------------------ Option --------------------------------- *)
None == <<>>
Some(x) == <<x>>
IsSome(o) == o # <<>>
Unwrap(o) == o[1]

(* ------------------------------- f64 ----------------------------------- *)
Abs(n) == IF n < 0 THEN -n ELSE n

RECURSIVE Gcd(_, _)
Gcd(a, b) == IF b = 0 THEN a ELSE Gcd(b, a % b)

\* n/d in lowest terms with a positive denominator (d # 0)
Rat(n, d) ==
  LET g == Gcd(Abs(n), Abs(d))
      s == IF d < 0 THEN -1 ELSE 1
  IN  <<(s * n) \div g, (s * d) \div g>>

F64(n) == <<n, 1>>
RatDiv(a, b) == Rat(a[1] * b[2], a[2] * b[1])
\* the quotient is rounded down
CeilFloor(a) == F64(a[1] \div a[2])

\* f64::ceil
Ceil(a) == F64(-((-a[1]) \div a[2]))

(* ------------------------------ inputs --------------------------------- *)
\* winit PhysicalSize<u32>
Sizes == {[width |-> w, height |-> MaxSide + 1 - w] : w \in 1..MaxSide}
ScaleFactors == {F64(1), Rat(3, 2)}
\* an id no window of the application has; create_window's windows are 1, 2, ...
ForeignWindow == 0

\* winit::event::WindowEvent, the payloads the normaliser reads
WindowEvents ==
       {[kind |-> "CloseRequested"]}
  \cup {[kind |-> "CursorMoved", position |-> [x |-> 3, y |-> 2]]}
  \cup {[kind |-> "MouseInput", state |-> "Pressed", button |-> "Left"]}
  \cup {[kind |-> "MouseWheel", delta |-> d] :
          d \in {[mode |-> "PixelDelta", y |-> F64(21)], [mode |-> "LineDelta", y |-> F64(3)]}}
  \cup {[kind |-> "KeyboardInput", state |-> st, virtual_keycode |-> k] :
          st \in {"Pressed", "Released"}, k \in {None, Some("A")}}
  \cup {[kind |-> "ModifiersChanged", state |-> "SHIFT"]}
  \cup {[kind |-> "Resized", size |-> s] : s \in Sizes}
  \cup {[kind |-> "ScaleFactorChanged", scale_factor |-> f, new_inner_size |-> s] :
          f \in ScaleFactors, s \in Sizes}
  \cup {[kind |-> k] : k \in {"Focused", "Moved"}}

\* the events of other windows: the closure returns before it looks at the payload
ForeignEvents == {e \in WindowEvents : e.kind \in {"CloseRequested", "Resized"}}

(* ----------------------------- ControlFlow ----------------------------- *)
Poll == <<"Poll">>
Wait == <<"Wait">>
ExitWithCode(code) == <<"ExitWithCode", code>>
\* winit: pub const Exit: Self = Self::ExitWithCode(0)
Exit == ExitWithCode(0)
IsExit(cf) == cf[1] = "ExitWithCode"

(* ------------------------------- Screen -------------------------------- *)
Screen(phy_size, scale_factor) == [phy_size |-> phy_size, scale_factor |-> scale_factor]

\* the physical size is multiplied by the scale factor
Screen_sizeMultiplied(s) ==
  [width |-> Rat(s.phy_size.width * s.scale_factor[1], s.scale_factor[2]),
   height |-> Rat(s.phy_size.height * s.scale_factor[1], s.scale_factor[2])]

\* Screen::size: the logical size
Screen_size(s) ==
  [width |-> RatDiv(F64(s.phy_size.width), s.scale_factor),
   height |-> RatDiv(F64(s.phy_size.height), s.scale_factor)]

\* Screen::scale
Screen_scale(s) == s.scale_factor

(* ------------------------------- Event --------------------------------- *)
\* PhysicalPosition::to_logical
to_logical(position, scale_factor) ==
  [x |-> RatDiv(F64(position.x), scale_factor), y |-> RatDiv(F64(position.y), scale_factor)]

\* the MouseWheel arm: pixels are turned into lines, lines pass through
WheelDelta(delta) ==
  IF delta.mode = "PixelDelta" THEN Ceil(RatDiv(delta.y, F64(LINE_HEIGHT))) ELSE delta.y

\* a keyboard event without a keycode is delivered with a placeholder keycode
KeyboardEventAlways(input) ==
  Some([kind |-> "KeyboardInput",
        keycode |-> IF IsSome(input.virtual_keycode) THEN Unwrap(input.virtual_keycode)
                                                     ELSE "Unknown",
        state |-> input.state])

\* the KeyboardInput arm: input.virtual_keycode.map(|keycode| Event::KeyboardInput {..})
KeyboardEvent(input) ==
  IF IsSome(input.virtual_keycode)
    THEN Some([kind |-> "KeyboardInput", keycode |-> Unwrap(input.virtual_keycode),
               state |-> input.state])
    ELSE None

\* Event::from_winit_window: Option<Event>
from_winit_window(evt, screen) ==
  CASE evt.kind = "CloseRequested" -> Some([kind |-> "CloseRequested"])
    [] evt.kind = "CursorMoved" ->
         Some([kind |-> "CursorMoved", pos |-> to_logical(evt.position, screen.scale_factor)])
    [] evt.kind = "MouseInput" ->
         Some([kind |-> "MouseInput", state |-> evt.state, button |-> evt.button])
    [] evt.kind = "MouseWheel" -> Some([kind |-> "MouseWheel", delta |-> WheelDelta(evt.delta)])
    [] evt.kind = "KeyboardInput" -> KeyboardEvent(evt)
    [] evt.kind = "ModifiersChanged" -> Some([kind |-> "ModifiersChanged", state |-> evt.state])
    [] evt.kind \in {"Resized", "ScaleFactorChanged"} ->
         Some([kind |-> "Resized", screen |-> screen])
    [] OTHER -> None

(* ------------------------------ AppLogic ------------------------------- *)
\* the default AppLogic::event: the control flow it leaves behind
AppLogic_event(event, cf) == IF event.kind = "CloseRequested" THEN Exit ELSE cf

\* examples/simple.rs render: strokes every line, leaves the data alone
render(data, ctx_screen) == data

(* ------------------------------- state --------------------------------- *)
VARIABLES
  logic,            \* App::logic, the user's data
  screen,           \* App::screen: Option<Screen>
  devices,          \* render_cx.devices.len()
  renderers,        \* Vec<Option<Renderer>>: TRUE where a renderer is present
  cached_window,    \* Option<Window>: the window's id
  render_state,     \* Option<RenderState>
  control_flow,     \* *control_flow
  inner_size,       \* window.inner_size() of the window, once built
  panicked,         \* a panic unwound the closure
  windows,          \* ids of the windows alive
  surfaces,         \* ids of the windows a live surface is bound to
  dangling,         \* a window was released while a surface was bound to it
  surface_failed,   \* create_surface has returned Err at some time
  redraw_pending,   \* window.request_redraw() was called and no redraw delivered since
  windows_created,  \* calls of create_window so far
  renderers_created,\* per device id, calls of Renderer::new so far
  raw,              \* the event the closure handled last
  delivered,        \* the events that call handed to AppLogic::event, in order
  frame,            \* what that call did to draw a frame, in order
  fx,               \* the other calls it made on the window, surface and context
  result            \* what a function called on its own returned

vars == <<logic, screen, devices, renderers, cached_window, render_state, control_flow,
          inner_size, panicked, windows, surfaces, dangling, surface_failed,
          redraw_pending, windows_created, renderers_created, raw, delivered, frame, fx,
          result>>

\* window_created: create_window built a window; surface_attempted / surface_created:
\* create_surface was called / returned Ok; renderer_created: the device Renderer::new
\* was called for; redraw_requested: window.request_redraw(); surface_resized: the size
\* given to resize_surface; drops: the resources released, in order
NoFx == [window_created |-> FALSE, surface_attempted |-> FALSE, surface_created |-> FALSE,
         renderer_created |-> None, redraw_requested |-> FALSE, surface_resized |-> None,
         drops |-> <<>>]

NoEvent == [kind |-> "None"]
Raw(kind, event, window_id) == [kind |-> kind, event |-> event, window_id |-> window_id]

Init ==
  /\ logic = [lines |-> NUM]
  /\ screen = None
  /\ devices = 0
  /\ renderers = <<>>
  /\ cached_window = None
  /\ render_state = None
  /\ control_flow = Poll
  /\ inner_size = CHOOSE s \in Sizes : TRUE
  /\ panicked = FALSE
  /\ windows = {}
  /\ surfaces = {}
  /\ dangling = FALSE
  /\ surface_failed = FALSE
  /\ redraw_pending = FALSE
  /\ windows_created = 0
  /\ renderers_created = [d \in 0..(MaxDevices - 1) |-> 0]
  /\ raw = Raw("Init", NoEvent, ForeignWindow)
  /\ delivered = <<>>
  /\ frame = <<>>
  /\ fx = NoFx
  /\ result = None

(* ---------------------------- RenderState ------------------------------ *)
\* the fields declared window first
RenderStateFieldsSwapped == <<"window", "surface">>

\* struct RenderState: its fields in declaration order, the order Rust drops them in
RenderStateFields == <<"surface", "window">>

RenderSurface(dev_id, size) == [dev_id |-> dev_id, width |-> size.width, height |-> size.height]
RenderState(window, surface) == [surface |-> surface, window |-> window]

\* dropping a whole RenderState releases its fields in declaration order
DropRenderState(rs) ==
  [i \in 1..Len(RenderStateFields) |-> <<RenderStateFields[i], rs.window>>]

\* dropping what is left of a RenderState after one field was moved out of it
DropRest(rs, moved) ==
  LET rest == SelectSeq(RenderStateFields, LAMBDA f : f # moved)
  IN  [i \in 1..Len(rest) |-> <<rest[i], rs.window>>]

Released(kind, drops) == {drops[i][2] : i \in {j \in DOMAIN drops : drops[j][1] = kind}}

\* a window is released while a surface bound to it has not been released yet
Dangles(drops, bound) ==
  \E i \in DOMAIN drops :
    /\ drops[i][1] = "window"
    /\ drops[i][2] \in bound
    /\ \A j \in 1..(i - 1) : drops[j] # <<"surface", drops[i][2]>>

\* the windows and surfaces alive after a call that built some and dropped some
Resources(new_windows, new_surfaces, drops) ==
  /\ windows' = (windows \cup new_windows) \ Released("window", drops)
  /\ surfaces' = (surfaces \cup new_surfaces) \ Released("surface", drops)
  /\ dangling' = (dangling \/ Dangles(drops, surfaces \cup new_surfaces))

\* a panic unwinds the closure: what it owns is dropped and nothing runs afterwards
Unwind(owned) ==
  /\ panicked' = TRUE
  /\ render_state' = None
  /\ cached_window' = None
  /\ Resources({}, {}, owned)

(* ---------------------------- the event loop --------------------------- *)
\* The closure given to event_loop.run is modelled for every order of events: it holds
\* no state of its own that tells it the control flow was set to an exit, and what the
\* loop still delivers after that is the windowing library's choice, not the closure's.

Min(a, b) == IF a < b THEN a ELSE b
Max(a, b) == IF a < b THEN b ELSE a

\* the vector is rebuilt empty instead of extended
resize_withFresh(v, n) == [i \in 1..n |-> FALSE]

\* Vec::resize_with(n, || None)
resize_with(v, n) == [i \in 1..n |-> IF i <= Len(v) THEN v[i] ELSE FALSE]

\* the control flow the closure leaves when create_surface fails
OnSurfaceError == ExitWithCode(1)

\* the arm does not return when a RenderState is present
AlreadyActiveNever(rstate) == FALSE

\* let Option::None = render_state else { return }
AlreadyActive(rstate) == IsSome(rstate)

\* the control flow the closure leaves when the surface was created
OnResumed == Poll

\* the cached window is never reused
NeedsWindowAlways(cached) == TRUE

\* cached_window.take().unwrap_or_else(|| create_window(event_loop)): must a window be built
NeedsWindow(cached) == cached = None

(* WEvent::Resumed *)
Resumed ==
  /\ ~panicked
  /\ UNCHANGED result
  /\ raw' = Raw("Resumed", NoEvent, ForeignWindow)
  /\ delivered' = <<>>
  /\ frame' = <<>>
  /\ UNCHANGED <<logic, screen, redraw_pending>>
  /\ IF AlreadyActive(render_state)
       THEN /\ fx' = NoFx
            /\ UNCHANGED <<devices, renderers, cached_window, render_state, control_flow,
                           inner_size, panicked, windows, surfaces, dangling,
                           surface_failed, windows_created, renderers_created>>
       ELSE \E window_ok \in BOOLEAN, built_size \in Sizes, surface_ok \in BOOLEAN,
               id \in 0..Min(devices, MaxDevices - 1), renderer_ok \in BOOLEAN :
            LET create == NeedsWindow(cached_window)
                window == IF create THEN windows_created + 1 ELSE Unwrap(cached_window)
                size   == IF create THEN built_size ELSE inner_size
                surface == RenderSurface(id, size)
                rs == RenderState(window, surface)
                len == Max(devices, id + 1)
                resized == resize_with(renderers, len)
                make == ~resized[id + 1]
            IN
            /\ create => windows_created < MaxWindows
            /\ IF create /\ ~window_ok
                 THEN \* create_window: build(..).unwrap() panics
                      /\ fx' = NoFx
                      /\ Unwind(<<>>)
                      /\ UNCHANGED <<devices, renderers, control_flow, inner_size,
                                     surface_failed, windows_created, renderers_created>>
                 ELSE
                 /\ windows_created' = IF create THEN windows_created + 1 ELSE windows_created
                 /\ inner_size' = size
                 /\ surface_failed' = (surface_failed \/ ~surface_ok)
                 /\ IF ~surface_ok
                      THEN \* create_surface failed: the window is dropped on return
                           /\ control_flow' = OnSurfaceError
                           /\ cached_window' = None
                           /\ fx' = [NoFx EXCEPT !.window_created = create,
                                                 !.surface_attempted = TRUE,
                                                 !.drops = <<<<"window", window>>>>]
                           /\ Resources({window}, {}, <<<<"window", window>>>>)
                           /\ UNCHANGED <<devices, renderers, render_state, panicked,
                                          renderers_created>>
                      ELSE
                      /\ devices' = len
                      /\ IF make /\ ~renderer_ok
                           THEN \* Renderer::new(..).expect(..) panics
                                /\ renderers' = resized
                                /\ fx' = [NoFx EXCEPT !.window_created = create,
                                                      !.surface_attempted = TRUE,
                                                      !.surface_created = TRUE,
                                                      !.drops = DropRenderState(rs)]
                                /\ panicked' = TRUE
                                /\ render_state' = None
                                /\ cached_window' = None
                                /\ Resources({window}, {window}, DropRenderState(rs))
                                /\ UNCHANGED <<control_flow, renderers_created>>
                           ELSE
                           /\ make => renderers_created[id] < MaxRenderers
                           /\ renderers' = [resized EXCEPT ![id + 1] = TRUE]
                           /\ renderers_created' =
                                IF make THEN [renderers_created EXCEPT ![id] = @ + 1]
                                        ELSE renderers_created
                           /\ render_state' = Some(rs)
                           /\ cached_window' = None
                           /\ control_flow' = OnResumed
                           /\ fx' = [NoFx EXCEPT !.window_created = create,
                                                 !.surface_attempted = TRUE,
                                                 !.surface_created = TRUE,
                                                 !.renderer_created =
                                                    IF make THEN Some(id) ELSE None]
                           /\ Resources({window}, {window}, <<>>)
                           /\ UNCHANGED panicked

\* the window is dropped with the rest of the RenderState
CachedOnSuspendNone(rs) == None

\* cached_window = Some(render_state.window)
CachedOnSuspend(rs) == Some(rs.window)

(* WEvent::Suspended *)
Suspended ==
  /\ ~panicked
  /\ UNCHANGED result
  /\ raw' = Raw("Suspended", NoEvent, ForeignWindow)
  /\ delivered' = <<>>
  /\ frame' = <<>>
  /\ control_flow' = Wait
  /\ IF IsSome(render_state)
       THEN LET rs == Unwrap(render_state)
                drops == DropRest(rs, "window")
            IN  /\ render_state' = None
                /\ cached_window' = CachedOnSuspend(rs)
                /\ fx' = [NoFx EXCEPT !.drops = drops]
                /\ Resources({}, {}, drops)
       ELSE /\ fx' = NoFx
            /\ UNCHANGED <<render_state, cached_window, windows, surfaces, dangling>>
  /\ UNCHANGED <<logic, screen, devices, renderers, inner_size, panicked,
                 surface_failed, redraw_pending, windows_created, renderers_created>>

\* no redraw is requested
RequestsRedrawNever(rstate) == FALSE

\* if let Some(render_state) = &mut render_state { render_state.window.request_redraw() }
RequestsRedraw(rstate) == IsSome(rstate)

(* WEvent::MainEventsCleared *)
MainEventsCleared ==
  /\ ~panicked
  /\ UNCHANGED result
  /\ raw' = Raw("MainEventsCleared", NoEvent, ForeignWindow)
  /\ delivered' = <<>>
  /\ frame' = <<>>
  /\ fx' = [NoFx EXCEPT !.redraw_requested = RequestsRedraw(render_state)]
  /\ redraw_pending' = (redraw_pending \/ RequestsRedraw(render_state))
  /\ UNCHANGED <<logic, screen, devices, renderers, cached_window, render_state,
                 control_flow, inner_size, panicked, windows, surfaces, dangling,
                 surface_failed, windows_created, renderers_created>>

(* WEvent::RedrawRequested *)
\* the Screen handed to the render callback: self.screen.unwrap_or(Screen { surface size, 1. })
SnapshotScreen(scr, surface) ==
  IF IsSome(scr)
    THEN Unwrap(scr)
    ELSE Screen([width |-> surface.width, height |-> surface.height], F64(1))

\* the fragment is appended with no transform at all
FragmentScaleNone(scr) == None

\* the Option<Affine> the fragment is appended with: self.screen.map(|s| Affine::scale(..))
FragmentScale(scr) == IF IsSome(scr) THEN Some(Unwrap(scr).scale_factor) ELSE None

\* the rendering callback is called twice
DrawFragmentTwice(data, s) ==
  << <<"fill">>, <<"render", s, data.lines>>, <<"render", s, data.lines>> >>

\* the calls of one frame up to and including the rendering callback
DrawFragment(data, s) == << <<"fill">>, <<"render", s, data.lines>> >>

\* the calls of one frame, in order; it ends where a call panics
FrameSteps(data, scr, surface, texture_ok, renderer_ok) ==
  LET s == SnapshotScreen(scr, surface)
      head == DrawFragment(data, s)
                \o << <<"append", FragmentScale(scr)>>, <<"get_current_texture">> >>
      draw == <<"render_to_surface", surface.dev_id, surface.width, surface.height>>
  IN  IF ~texture_ok THEN head
      ELSE IF ~renderer_ok THEN head \o <<draw>>
      ELSE head \o <<draw, <<"present">>, <<"poll">> >>

FrameCompleted(steps) == steps # <<>> /\ steps[Len(steps)] = <<"poll">>

RedrawRequested ==
  /\ ~panicked
  /\ UNCHANGED result
  /\ raw' = Raw("RedrawRequested", NoEvent, ForeignWindow)
  /\ delivered' = <<>>
  /\ redraw_pending' = FALSE
  /\ UNCHANGED <<screen, devices, renderers, control_flow, inner_size, surface_failed,
                 windows_created, renderers_created>>
  /\ IF render_state = None
       THEN /\ frame' = <<>>
            /\ fx' = NoFx
            /\ UNCHANGED <<logic, cached_window, render_state, panicked, windows,
                           surfaces, dangling>>
       ELSE \E texture_ok \in BOOLEAN, render_ok \in BOOLEAN :
            LET rs == Unwrap(render_state)
                steps == FrameSteps(logic, screen, rs.surface, texture_ok,
                                    renderers[rs.surface.dev_id + 1] /\ render_ok)
            IN  /\ frame' = steps
                /\ logic' = render(logic, SnapshotScreen(screen, rs.surface))
                /\ IF FrameCompleted(steps)
                     THEN /\ fx' = NoFx
                          /\ UNCHANGED <<cached_window, render_state, panicked, windows,
                                         surfaces, dangling>>
                     ELSE \* .expect(..) panics: the closure and its RenderState unwind
                          /\ fx' = [NoFx EXCEPT !.drops = DropRenderState(rs)]
                          /\ Unwind(DropRenderState(rs))

(* WEvent::WindowEvent *)
\* the short-circuit is missing
RedundantNever(scr, phy_size) == FALSE

\* the Resized arm's short-circuit: the recorded physical size is the event's
Redundant(scr, phy_size) == IsSome(scr) /\ Unwrap(scr).phy_size = phy_size

\* a plain resize replaces the Screen wholesale and loses the recorded scale factor
ResizeResetsScale(event, scr) ==
  CASE event.kind = "Resized" ->
         IF Redundant(scr, event.size)
           THEN [returned |-> TRUE, screen |-> scr, resized |-> None, redraw |-> FALSE]
           ELSE [returned |-> FALSE, screen |-> Some(Screen(event.size, F64(1))),
                 resized |-> Some(event.size), redraw |-> TRUE]
    [] event.kind = "ScaleFactorChanged" ->
         [returned |-> FALSE,
          screen |-> Some(Screen(event.new_inner_size, event.scale_factor)),
          resized |-> Some(event.new_inner_size), redraw |-> FALSE]
    [] OTHER -> [returned |-> FALSE, screen |-> scr, resized |-> None, redraw |-> FALSE]

\* the match on Resized / ScaleFactorChanged: whether the closure returned early, the
\* Screen recorded, the size the surface was resized to, whether a redraw was requested
Resize(event, scr) ==
  CASE event.kind = "Resized" ->
         IF Redundant(scr, event.size)
           THEN [returned |-> TRUE, screen |-> scr, resized |-> None, redraw |-> FALSE]
           ELSE [returned |-> FALSE,
                 screen |-> IF IsSome(scr)
                              THEN Some([Unwrap(scr) EXCEPT !.phy_size = event.size])
                              ELSE Some(Screen(event.size, F64(1))),
                 resized |-> Some(event.size), redraw |-> TRUE]
    [] event.kind = "ScaleFactorChanged" ->
         [returned |-> FALSE,
          screen |-> Some(Screen(event.new_inner_size, event.scale_factor)),
          resized |-> Some(event.new_inner_size), redraw |-> FALSE]
    [] OTHER -> [returned |-> FALSE, screen |-> scr, resized |-> None, redraw |-> FALSE]

\* render_cx.resize_surface
resize_surface(surface, size) ==
  [surface EXCEPT !.width = size.width, !.height = size.height]

\* the tail of the arm: the events handed to self.logic.event
Dispatch(event, scr) ==
  IF IsSome(scr) THEN from_winit_window(event, Unwrap(scr)) ELSE <<>>

\* the arm's two early returns: no RenderState, or an event of another window
Ignored(rstate, window_id) ==
  rstate = None \/ Unwrap(rstate).window # window_id

\* what the match does when the arm returned before it
NoResize(scr) == [returned |-> FALSE, screen |-> scr, resized |-> None, redraw |-> FALSE]

\* the events are dispatched without regard to the arm's first two returns
ForwardedUnguarded(ignored, returned, event, scr) ==
  IF returned THEN <<>> ELSE Dispatch(event, scr)

\* the events that reach self.logic.event: none when the arm returned early
Forwarded(ignored, returned, event, scr) ==
  IF ignored \/ returned THEN <<>> ELSE Dispatch(event, scr)

\* the control flow after the callback saw the events
RECURSIVE Deliver(_, _)
Deliver(events, cf) ==
  IF events = <<>> THEN cf ELSE Deliver(Tail(events), AppLogic_event(Head(events), cf))

\* the size winit reports for the window after the event
SizeAfter(event, size) ==
  CASE event.kind = "Resized" -> event.size
    [] event.kind = "ScaleFactorChanged" -> event.new_inner_size
    [] OTHER -> size

WindowEvent ==
  /\ ~panicked
  /\ UNCHANGED result
  /\ \E window_id \in {ForeignWindow} \cup windows :
     \E event \in IF window_id = ForeignWindow THEN ForeignEvents ELSE WindowEvents :
       /\ raw' = Raw("WindowEvent", event, window_id)
       /\ frame' = <<>>
       /\ inner_size' = IF window_id \in windows THEN SizeAfter(event, inner_size)
                                                  ELSE inner_size
       /\ LET ignored == Ignored(render_state, window_id)
              r == IF ignored THEN NoResize(screen) ELSE Resize(event, screen)
              out == Forwarded(ignored, r.returned, event, r.screen)
          IN  /\ screen' = r.screen
              /\ render_state' =
                   IF IsSome(r.resized)
                     THEN Some([Unwrap(render_state) EXCEPT !.surface =
                                  resize_surface(@, Unwrap(r.resized))])
                     ELSE render_state
              /\ delivered' = out
              /\ control_flow' = Deliver(out, control_flow)
              /\ fx' = [NoFx EXCEPT !.surface_resized = r.resized,
                                    !.redraw_requested = r.redraw]
              /\ redraw_pending' = (redraw_pending \/ r.redraw)
  /\ UNCHANGED <<logic, devices, renderers, cached_window, panicked, windows, surfaces,
                 dangling, surface_failed, windows_created, renderers_created>>

(* every other WEvent: _ => () *)
OtherEvent ==
  /\ ~panicked
  /\ UNCHANGED result
  /\ raw' = Raw("RedrawEventsCleared", NoEvent, ForeignWindow)
  /\ delivered' = <<>>
  /\ frame' = <<>>
  /\ fx' = NoFx
  /\ UNCHANGED <<logic, screen, devices, renderers, cached_window, render_state,
                 control_flow, inner_size, panicked, windows, surfaces, dangling,
                 surface_failed, redraw_pending, windows_created, renderers_created>>

Next ==
  \/ Resumed
  \/ Suspended
  \/ MainEventsCleared
  \/ RedrawRequested
  \/ WindowEvent
  \/ OtherEvent

Spec == Init /\ [][Next]_vars

(* ------------------------- fair event delivery ------------------------ *)
\* winit delivers RedrawRequested once window.request_redraw() was called
RequestedRedraw == redraw_pending /\ RedrawRequested

\* With ControlFlow::Poll the loop starts its next iteration at once, so
\* MainEventsCleared keeps being delivered; a requested redraw is delivered in the
\* iteration it was requested in, or the next.
LiveSpec ==
  /\ Spec
  /\ WF_vars(control_flow = Poll /\ MainEventsCleared)
  /\ WF_vars(RequestedRedraw)

(* -------------------- the pure functions on their own ------------------ *)
\* the scale factors and physical sizes a Screen is built from
NormScales == {Rat(n, d) : n \in 1..MaxScale, d \in 1..MaxScale}
NormSizes == {[width |-> w, height |-> h] : w \in 1..(MaxSide + 1), h \in 1..(MaxSide + 1)}
NormScreens == {Screen(p, f) : p \in NormSizes, f \in NormScales}

\* winit 0.28 WindowEvent variants the normaliser has no arm for
OtherKinds ==
  {"Moved", "Destroyed", "DroppedFile", "HoveredFile", "HoveredFileCancelled",
   "ReceivedCharacter", "Focused", "CursorEntered", "CursorLeft", "TouchpadMagnify",
   "SmartMagnify", "TouchpadRotate", "TouchpadPressure", "AxisMotion", "Touch",
   "ThemeChanged", "Occluded", "Ime"}

\* the window events the normaliser is given
NormEvents ==
       WindowEvents
  \cup {[kind |-> "MouseWheel", delta |-> [mode |-> "PixelDelta", y |-> Rat(n, 2)]] :
          n \in (-2 * MaxPixels)..(2 * MaxPixels)}
  \cup {[kind |-> "MouseWheel", delta |-> [mode |-> "LineDelta", y |-> Rat(n, 2)]] :
          n \in (-2 * MaxLines)..(2 * MaxLines)}
  \cup {[kind |-> "KeyboardInput", state |-> st, virtual_keycode |-> k] :
          st \in {"Pressed", "Released"}, k \in {None, Some("A"), Some("Escape")}}
  \cup {[kind |-> k] : k \in OtherKinds}

Call(fn, event, scr) == [kind |-> fn, event |-> event, screen |-> scr]

\* the arguments of one call: an event and a Screen for the normaliser, a Screen alone
\* for Screen::size and Screen::scale
NormInit ==
  /\ logic = [lines |-> NUM]
  /\ screen = None
  /\ devices = 0
  /\ renderers = <<>>
  /\ cached_window = None
  /\ render_state = None
  /\ control_flow = Poll
  /\ inner_size = CHOOSE s \in Sizes : TRUE
  /\ panicked = FALSE
  /\ windows = {}
  /\ surfaces = {}
  /\ dangling = FALSE
  /\ surface_failed = FALSE
  /\ redraw_pending = FALSE
  /\ windows_created = 0
  /\ renderers_created = [d \in 0..(MaxDevices - 1) |-> 0]
  /\ raw \in {Call("Arguments", evt, scr) :
                evt \in NormEvents \cup {NoEvent}, scr \in NormScreens}
  /\ delivered = <<>>
  /\ frame = <<>>
  /\ fx = NoFx
  /\ result = None

\* Event::from_winit_window(evt, screen)
Normalize ==
  /\ raw.kind = "Arguments"
  /\ raw.event # NoEvent
  /\ raw' = Call("from_winit_window", raw.event, raw.screen)
  /\ result' = from_winit_window(raw.event, raw.screen)
  /\ UNCHANGED <<logic, screen, devices, renderers, cached_window, render_state,
                 control_flow, inner_size, panicked, windows, surfaces, dangling,
                 surface_failed, redraw_pending, windows_created, renderers_created,
                 delivered, frame, fx>>

\* Screen::size() and Screen::scale() of one Screen
ScreenSize ==
  /\ raw.kind = "Arguments"
  /\ raw.event = NoEvent
  /\ raw' = Call("Screen", NoEvent, raw.screen)
  /\ result' = Some([size |-> Screen_size(raw.screen), scale |-> Screen_scale(raw.screen)])
  /\ UNCHANGED <<logic, screen, devices, renderers, cached_window, render_state,
                 control_flow, inner_size, panicked, windows, surfaces, dangling,
                 surface_failed, redraw_pending, windows_created, renderers_created,
                 delivered, frame, fx>>

NormNext ==
  \/ Normalize
  \/ ScreenSize

NormSpec == NormInit /\ [][NormNext]_vars
(* ======================================================================= *)
(*                              properties                                 *)
(* ======================================================================= *)
Active == IsSome(render_state)
SurfaceSize(surface) == [width |-> surface.width, height |-> surface.height]
\* the last event handled was a window event of the window the RenderState holds
OwnWindowEvent ==
  raw.kind = "WindowEvent" /\ Active /\ raw.window_id = Unwrap(render_state).window
\* the raw event has a normalised form (which Screen is given does not matter)
Normalizes(event) == IsSome(from_winit_window(event, Screen(inner_size, F64(1))))
Steps(f, op) == {i \in DOMAIN f : f[i][1] = op}

\* C1: whenever the closure, Active, has handled a CloseRequested of its window, the
\* control flow is an exit, whatever events came before (also with no Screen recorded)
C1_CloseTerminates ==
  (OwnWindowEvent /\ raw.event.kind = "CloseRequested") => IsExit(control_flow)

\* C2: with no RenderState, a RedrawRequested or a WindowEvent calls neither callback
\* and leaves the Screen, the cached window, the renderers, the control flow, the
\* RenderState and the user's data as they were
C2_InactiveNoOp ==
  [][ (render_state = None /\ raw'.kind \in {"RedrawRequested", "WindowEvent"})
        => /\ frame' = <<>>
           /\ delivered' = <<>>
           /\ fx' = NoFx
           /\ UNCHANGED <<screen, cached_window, renderers, control_flow, render_state,
                          logic>> ]_vars

\* a window event of the application's own window, one with a normalised form, was
\* handled while the loop was suspended with a Screen recorded
C2_Witness ==
  /\ render_state = None
  /\ IsSome(cached_window)
  /\ IsSome(screen)
  /\ raw.kind = "WindowEvent"
  /\ raw.window_id = Unwrap(cached_window)
  /\ Normalizes(raw.event)

\* C3: while Active, a Resized of the window whose size is the recorded Screen's
\* delivers nothing, resizes nothing, requests no redraw and leaves the Screen as it
\* was; any other Resized (a new size, or no Screen recorded) delivers one Resized
C3_RedundantResizeSuppressed ==
  [][ ( /\ IsSome(render_state)
        /\ raw'.kind = "WindowEvent"
        /\ raw'.window_id = Unwrap(render_state).window
        /\ raw'.event.kind = "Resized" )
        => IF IsSome(screen) /\ Unwrap(screen).phy_size = raw'.event.size
             THEN /\ delivered' = <<>>
                  /\ fx'.surface_resized = None
                  /\ ~fx'.redraw_requested
                  /\ UNCHANGED <<screen, render_state>>
             ELSE /\ Len(delivered') = 1
                  /\ delivered'[1].kind = "Resized" ]_vars

\* a Resized with the recorded size has just been suppressed
C3_Witness ==
  /\ OwnWindowEvent
  /\ raw.event.kind = "Resized"
  /\ IsSome(screen)
  /\ Unwrap(screen).phy_size = raw.event.size
  /\ delivered = <<>>
  /\ fx = NoFx

\* C4: after a redraw handled while Active, the Screen given to the rendering callback
\* has the physical size the surface is configured with, and the recorded scale factor
\* (1 when none is recorded)
C4_SnapshotMatchesSurface ==
  (raw.kind = "RedrawRequested" /\ Active /\ frame # <<>>)
    => \A i \in Steps(frame, "render") :
         /\ frame[i][2].phy_size = SurfaceSize(Unwrap(render_state).surface)
         /\ frame[i][2].scale_factor =
              (IF IsSome(screen) THEN Unwrap(screen).scale_factor ELSE F64(1))

\* C5: as long as create_surface has not failed a window is built at most once; the
\* first Resumed that ends Active built a window and a surface; Suspended leaves no
\* RenderState and no surface and caches the window it held; a Resumed that finds a
\* cached window builds none and binds the new surface to it
C5_WindowReuse ==
  /\ [](~surface_failed => windows_created <= 1)
  /\ [](Active => (cached_window = None /\ surfaces = {Unwrap(render_state).window}))
  /\ [](raw.kind = "Suspended" => (render_state = None /\ surfaces = {}))
  /\ [][ (raw'.kind = "Suspended" /\ IsSome(render_state))
           => cached_window' = Some(Unwrap(render_state).window) ]_vars
  /\ [][ (raw'.kind = "Resumed" /\ IsSome(cached_window) /\ render_state = None)
           => /\ ~fx'.window_created
              /\ IsSome(render_state') => Unwrap(render_state').window = Unwrap(cached_window)
         ]_vars
  /\ [][ (raw'.kind = "Resumed" /\ windows_created = 0 /\ IsSome(render_state'))
           => (fx'.window_created /\ fx'.surface_created) ]_vars

\* a Resumed has just rebuilt the surface on the window cached by a Suspended
C5_Witness ==
  /\ raw.kind = "Resumed"
  /\ Active
  /\ windows_created = 1
  /\ fx.surface_created
  /\ ~fx.window_created

\* C6: a live surface is bound to a live window, no window was ever released while a
\* surface was bound to it, and after Suspended the surface is gone and the window kept
C6_SurfaceBeforeWindow ==
  /\ surfaces \subseteq windows
  /\ ~dangling
  /\ (Active => Unwrap(render_state).window \in surfaces)
  /\ (raw.kind = "Suspended" /\ IsSome(cached_window))
       => (surfaces = {} /\ Unwrap(cached_window) \in windows)

\* a Suspended has just released the surface and kept the window
C6_Witness ==
  /\ raw.kind = "Suspended"
  /\ IsSome(cached_window)
  /\ fx.drops = <<<<"surface", Unwrap(cached_window)>>>>
  /\ Unwrap(cached_window) \in windows
  /\ surfaces = {}

C8_OneRendererPerDevice ==
  /\ [](Active => LET id == Unwrap(render_state).surface.dev_id
                  IN  id + 1 <= Len(renderers) /\ renderers[id + 1])
  /\ [](\A d \in DOMAIN renderers_created : renderers_created[d] <= 1)
  /\ [](\A d \in DOMAIN renderers_created :
          renderers_created[d] = 1 <=> (d + 1 <= Len(renderers) /\ renderers[d + 1]))
  /\ [][ IsSome(fx'.renderer_created)
           => LET d == Unwrap(fx'.renderer_created)
              IN  /\ raw'.kind = "Resumed"
                  /\ renderers_created[d] = 0
                  /\ IsSome(render_state')
                  /\ Unwrap(render_state').surface.dev_id = d ]_vars

\* a Resumed has just reused the renderer of a device, with two devices in use
C8_Witness ==
  /\ raw.kind = "Resumed"
  /\ Active
  /\ fx.surface_created
  /\ fx.renderer_created = None
  /\ devices = 2
  /\ renderers = <<TRUE, TRUE>>

\* C9: a RedrawRequested handled while a RenderState exists calls the rendering
\* callback exactly once, before the fragment is appended to the scene and before the
\* scene is rendered; and no event changes the number of primitives the user holds
C9_OneRenderPerFrame ==
  /\ [][ (raw'.kind = "RedrawRequested" /\ IsSome(render_state))
           => /\ Cardinality(Steps(frame', "render")) = 1
              /\ \A i \in Steps(frame', "render") :
                   \A j \in Steps(frame', "append") \cup Steps(frame', "render_to_surface") :
                     i < j
              /\ Steps(frame', "append") # {} ]_vars
  /\ [][ raw'.kind # "RedrawRequested" => Steps(frame', "render") = {} ]_vars
  /\ [][ logic'.lines = logic.lines ]_vars

\* a frame was drawn to the end, the callback having been given NUM primitives
C9_Witness ==
  /\ raw.kind = "RedrawRequested"
  /\ Active
  /\ FrameCompleted(frame)
  /\ \E i \in Steps(frame, "render") : frame[i][3] = NUM
  /\ logic.lines = NUM

\* C10: while Active, every window event of the window that has a normalised form is
\* handed to the event callback exactly once, and a delivered event other than
\* CloseRequested leaves the control flow as it was
C10_AllForwarded ==
  (OwnWindowEvent /\ Normalizes(raw.event)) => Len(delivered) = 1
\* C11: while Active, a Resized of the window that is not suppressed, and every
\* ScaleFactorChanged of the window, delivers exactly one Resized event; its Screen has
\* the event's physical size and the event's scale factor (for a plain resize the
\* recorded scale factor, 1 when none is recorded); the surface is resized to that
\* size and the Screen recorded is the Screen delivered
C11_ResizedCarriesScreen ==
  [][ ( /\ IsSome(render_state)
        /\ raw'.kind = "WindowEvent"
        /\ raw'.window_id = Unwrap(render_state).window
        /\ raw'.event.kind \in {"Resized", "ScaleFactorChanged"}
        /\ ~( /\ raw'.event.kind = "Resized"
              /\ IsSome(screen)
              /\ Unwrap(screen).phy_size = raw'.event.size ) )
        => LET e == raw'.event
               size == IF e.kind = "Resized" THEN e.size ELSE e.new_inner_size
               scale == IF e.kind = "ScaleFactorChanged" THEN e.scale_factor
                        ELSE IF IsSome(screen) THEN Unwrap(screen).scale_factor
                        ELSE F64(1)
               new == [phy_size |-> size, scale_factor |-> scale]
           IN  /\ delivered' = << [kind |-> "Resized", screen |-> new] >>
               /\ screen' = Some(new)
               /\ fx'.surface_resized = Some(size)
               /\ IsSome(render_state')
               /\ SurfaceSize(Unwrap(render_state').surface) = size ]_vars

\* a plain resize has just delivered a Screen that kept a recorded scale factor of 3/2
C11_Witness ==
  /\ OwnWindowEvent
  /\ raw.event.kind = "Resized"
  /\ Len(delivered) = 1
  /\ delivered[1].kind = "Resized"
  /\ delivered[1].screen.scale_factor = Rat(3, 2)
  /\ delivered[1].screen.phy_size = raw.event.size
  /\ screen = Some(delivered[1].screen)
\* C12 as stated: a pixel delta of 20 gives 1, of 21 gives 1, of -20 gives -1, and a
\* line delta of 3 gives 3
C12_WheelDeltaAsStated ==
  (raw.kind = "from_winit_window" /\ raw.event.kind = "MouseWheel")
    => /\ Len(result) = 1
       /\ result[1].kind = "MouseWheel"
       /\ LET y == raw.event.delta.y
              d == result[1].delta
          IN  IF raw.event.delta.mode = "PixelDelta"
                THEN /\ (y = F64(20) => d = F64(1))
                     /\ (y = F64(21) => d = F64(1))
                     /\ (y = F64(-20) => d = F64(-1))
                ELSE (y = F64(3) => d = F64(3))

\* C12: a MouseWheel event is normalised to one MouseWheel event; a pixel delta y gives
\* the least whole number d with d >= y / 20, so 20 gives 1, 21 gives 2 and -20 gives
\* -1; a line delta passes through unchanged, so 3 gives 3
C12_WheelDelta ==
  (raw.kind = "from_winit_window" /\ raw.event.kind = "MouseWheel")
    => /\ Len(result) = 1
       /\ result[1].kind = "MouseWheel"
       /\ LET y == raw.event.delta.y
              d == result[1].delta
          IN  IF raw.event.delta.mode = "PixelDelta"
                THEN /\ d[2] = 1
                     /\ d[1] * LINE_HEIGHT * y[2] >= y[1]
                     /\ (d[1] - 1) * LINE_HEIGHT * y[2] < y[1]
                     /\ (y = F64(20) => d = F64(1))
                     /\ (y = F64(21) => d = F64(2))
                     /\ (y = F64(-20) => d = F64(-1))
                ELSE /\ d = y
                     /\ (y = F64(3) => d = F64(3))

\* a pixel delta of 21 has just been normalised, to 2 lines
C12_Witness ==
  /\ raw.kind = "from_winit_window"
  /\ raw.event.kind = "MouseWheel"
  /\ raw.event.delta = [mode |-> "PixelDelta", y |-> F64(21)]
  /\ result = Some([kind |-> "MouseWheel", delta |-> F64(2)])

\* C13: in every frame the fragment is appended once; with a Screen recorded the
\* transform is the uniform scale by the scale factor of the Screen the rendering
\* callback was given in that frame; with none recorded that Screen's scale factor is 1
\* and the fragment is appended with no transform
C13_FragmentScale ==
  (raw.kind = "RedrawRequested" /\ frame # <<>>)
    => /\ Cardinality(Steps(frame, "append")) = 1
       /\ Cardinality(Steps(frame, "render")) = 1
       /\ \A i \in Steps(frame, "render"), j \in Steps(frame, "append") :
            /\ i < j
            /\ IF IsSome(screen)
                 THEN /\ frame[i][2] = Unwrap(screen)
                      /\ frame[j][2] = Some(frame[i][2].scale_factor)
                 ELSE /\ frame[i][2].scale_factor = F64(1)
                      /\ frame[j][2] = None

\* a frame was drawn with a scale factor of 3/2 recorded
C13_Witness ==
  /\ raw.kind = "RedrawRequested"
  /\ FrameCompleted(frame)
  /\ IsSome(screen)
  /\ Unwrap(screen).scale_factor = Rat(3, 2)
  /\ \E j \in Steps(frame, "append") : frame[j][2] = Some(Rat(3, 2))

\* the window event kinds the normaliser has an arm for
NormalizedKinds ==
  {"CloseRequested", "CursorMoved", "MouseInput", "MouseWheel", "KeyboardInput",
   "ModifiersChanged", "Resized", "ScaleFactorChanged"}

\* C14: a KeyboardInput without a keycode is never handed to the event callback; what
\* the callback is handed for a KeyboardInput is one Event::KeyboardInput with the raw
\* event's keycode and state; a KeyboardInput that reaches the normaliser is handed on
\* exactly when it has a keycode; an event of a kind the normaliser has no arm for is
\* never handed on
C14_KeyboardNeedsKeycode ==
  raw.kind = "WindowEvent"
    => /\ raw.event.kind = "KeyboardInput"
            => /\ raw.event.virtual_keycode = None => delivered = <<>>
               /\ Len(delivered) <= 1
               /\ \A i \in DOMAIN delivered :
                    delivered[i] = [kind |-> "KeyboardInput",
                                    keycode |-> Unwrap(raw.event.virtual_keycode),
                                    state |-> raw.event.state]
               /\ (OwnWindowEvent /\ IsSome(screen))
                    => (delivered # <<>> <=> IsSome(raw.event.virtual_keycode))
       /\ raw.event.kind \notin NormalizedKinds => delivered = <<>>

\* a KeyboardInput without a keycode reached the normaliser and was dropped
C14_Witness ==
  /\ OwnWindowEvent
  /\ IsSome(screen)
  /\ raw.event.kind = "KeyboardInput"
  /\ raw.event.virtual_keycode = None
  /\ delivered = <<>>

\* C15: for a Screen of physical size P and scale factor S > 0, size() is the size
\* whose width times S is P.width and whose height times S is P.height, and scale()
\* is S
C15_LogicalSize ==
  raw.kind = "Screen"
    => LET P == raw.screen.phy_size
           S == raw.screen.scale_factor
           r == Unwrap(result)
       IN  /\ IsSome(result)
           /\ S[1] > 0 /\ S[2] > 0
           /\ r.size.width[1] * S[1] = P.width * r.size.width[2] * S[2]
           /\ r.size.height[1] * S[1] = P.height * r.size.height[2] * S[2]
           /\ r.size.width[2] > 0 /\ r.size.height[2] > 0
           /\ r.scale = S

\* the logical size of a 3 x 1 Screen of scale factor 3/2 was taken: 2 x 2/3
C15_Witness ==
  /\ raw.kind = "Screen"
  /\ raw.screen = Screen([width |-> 3, height |-> 1], Rat(3, 2))
  /\ result = Some([size |-> [width |-> F64(2), height |-> Rat(2, 3)],
                    scale |-> Rat(3, 2)])
C17_LifecycleNoOps ==
  [][ /\ (IsSome(render_state) /\ raw'.kind = "Resumed")
          => /\ fx' = NoFx
             /\ delivered' = <<>>
             /\ frame' = <<>>
             /\ UNCHANGED <<render_state, cached_window, screen, control_flow, logic,
                            devices, renderers, windows, surfaces, windows_created,
                            renderers_created, redraw_pending>>
      /\ (render_state = None /\ raw'.kind = "Suspended")
          => /\ control_flow' = Wait
             /\ fx' = NoFx
             /\ delivered' = <<>>
             /\ frame' = <<>>
             /\ UNCHANGED <<render_state, cached_window, screen, logic, devices,
                            renderers, windows, surfaces, windows_created,
                            renderers_created, redraw_pending>> ]_vars

\* a Resumed was handled while Active and did nothing
C17_Witness ==
  /\ raw.kind = "Resumed"
  /\ Active
  /\ fx = NoFx
  /\ windows_created = 1

\* C18: the RenderState and the window cache never hold a window both at once; once a
\* window was built, while no create_surface has failed and nothing has panicked,
\* exactly one of them holds the window, and it is the only window alive
C18_SingleOwner ==
  /\ ~(IsSome(render_state) /\ IsSome(cached_window))
  /\ (windows_created >= 1 /\ ~surface_failed /\ ~panicked)
       => /\ IsSome(render_state) \/ IsSome(cached_window)
          /\ IsSome(render_state) => windows = {Unwrap(render_state).window}
          /\ IsSome(cached_window) => windows = {Unwrap(cached_window)}

\* the loop was suspended and the window went from the RenderState to the cache
C18_Witness ==
  /\ raw.kind = "Suspended"
  /\ render_state = None
  /\ IsSome(cached_window)
  /\ fx.drops = <<<<"surface", Unwrap(cached_window)>>>>
  /\ ~surface_failed

\* C19: a MainEventsCleared requests a redraw exactly when a RenderState exists; a
\* Resumed that built the RenderState leaves the control flow at Poll; and, events
\* being delivered fairly, a loop that stays Active and is not told to exit draws
\* frames again and again
C19_RedrawLoop ==
  /\ [][ raw'.kind = "MainEventsCleared"
           => /\ fx'.redraw_requested = IsSome(render_state)
              /\ redraw_pending' = (redraw_pending \/ IsSome(render_state)) ]_vars
  /\ [][ (raw'.kind = "Resumed" /\ fx'.surface_created /\ IsSome(render_state'))
           => control_flow' = Poll ]_vars
  /\ (<>[](Active /\ ~IsExit(control_flow))
        => []<>(raw.kind = "RedrawRequested" /\ FrameCompleted(frame)))

\* a MainEventsCleared handled while Active and polling has requested a redraw
C19_Witness ==
  /\ raw.kind = "MainEventsCleared"
  /\ Active
  /\ control_flow = Poll
  /\ fx.redraw_requested
  /\ redraw_pending
====
